---- MODULE Spec2Model ----
(***************************************************************************)
(* State-machine model of the JRP score mirror scripts:                    *)
(*   script/JRP_scraper.py          (incremental sync, cache, force flag)  *)
(*   script/Josquin_PDF_scraper.py  (the earlier one-shot scraper)         *)
(* A store (disk, works cache, failure report) survives from run to run;   *)
(* every other variable is the memory of the running process.              *)
(***************************************************************************)
EXTENDS Integers, Sequences, FiniteSets, TLC

VARIABLES
    disk,               \* filesystem: path -> file content, for the PDFs that exist
    cache,              \* works_cache.json: <<>> when absent, <<list>> when present
    report,             \* missing_or_failed.txt: <<>> when absent, <<lines>> when present
    pc,                 \* position of the driver (main)
    old_works,          \* main: dict of the cached records
    new_works,          \* main: dict of the retrieved records
    new_list,           \* main: the retrieved list
    diff,               \* main: what report_metadata_differences computed
    i,                  \* main: index of the next item / group to process
    k,                  \* main: which of the two per-item / per-group calls is next
    work_groups,        \* main: defaultdict(list), base -> member ids
    missing_or_failed,  \* module-level failure ledger of the process
    runs,               \* number of runs started so far
    faults,             \* number of things that went wrong so far (environment)
    last,               \* history: what the most recent call did
    hist                \* history: per-run bookkeeping for the cross-run properties

vars == <<disk, cache, report, pc, old_works, new_works, new_list, diff, i, k,
          work_groups, missing_or_failed, runs, faults, last, hist>>

-----------------------------------------------------------------------------
(* Bounds of the exploration *)

MaxRuns == 2        \* runs started in one behaviour
MaxItems == 2       \* records in one retrieved catalog
MaxFaults == 1      \* failed requests, failed tool runs and kills in one behaviour

(* Program constants *)

MIN_VALID_SIZE == 15000
BaseLen == 7        \* work_id[:7]
ComposerLen == 3    \* work_id[:3]

SCORES_ROOT == "../scores"
SECTION_DIR == "jrp_section_pdfs"
MERGED_DIR == "jrp_merged_works"
Versions == <<"no_edit", "edit">>

-----------------------------------------------------------------------------
(* The strings of the model and their characters: slicing and comparing    *)
(* work on the characters, as in the code                                   *)

Spell ==
    [s \in {"Jos", "Jos0101", "Jos0101a", "Jos0101b"} |->
        CASE s = "Jos" -> <<"J", "o", "s">>
          [] s = "Jos0101" -> <<"J", "o", "s", "0", "1", "0", "1">>
          [] s = "Jos0101a" -> <<"J", "o", "s", "0", "1", "0", "1", "a">>
          [] s = "Jos0101b" -> <<"J", "o", "s", "0", "1", "0", "1", "b">>]

Str(chars) == CHOOSE s \in DOMAIN Spell : Spell[s] = chars

\* a section of a work, and a work that is also the base of the others' ids
WorkIds == {"Jos0101", "Jos0101a", "Jos0101b"}

Dates == {"2020", "2021"}

Range(s) == {s[n] : n \in DOMAIN s}

\* the lists of at most MaxItems records with distinct ids
Lists(records) ==
    {s \in UNION {[1..n -> records] : n \in 0..MaxItems} :
        \A a, b \in DOMAIN s : a # b => s[a].WORK_ID # s[b].WORK_ID}

\* what the metadata source serves
Records == {[WORK_ID |-> id, DATE_CHANGED |-> d] : id \in WorkIds, d \in Dates}
Catalogs == Lists(Records)

\* records as the reconciler may meet them: the date may be empty or missing
LooseRecords ==
    {[WORK_ID |-> id] : id \in WorkIds}
        \cup {[WORK_ID |-> id, DATE_CHANGED |-> d] : id \in WorkIds, d \in Dates \cup {""}}

-----------------------------------------------------------------------------
(* Python helpers *)

\* str[:n]
Prefix(chars, n) == SubSeq(chars, 1, IF Len(chars) < n THEN Len(chars) ELSE n)
Slice(s, n) == Str(Prefix(Spell[s], n))

\* ASCII order of the characters that occur in the ids
Alphabet == <<"0", "1", "J", "a", "b", "o", "s">>
Ord(c) == CHOOSE n \in DOMAIN Alphabet : Alphabet[n] = c

\* str.__lt__, on the characters
RECURSIVE CharsLess(_, _)
CharsLess(a, b) ==
    IF b = <<>> THEN FALSE
    ELSE IF a = <<>> THEN TRUE
    ELSE IF Head(a) # Head(b) THEN Ord(Head(a)) < Ord(Head(b))
    ELSE CharsLess(Tail(a), Tail(b))

\* (tabulated once over the strings of the model)
LessTable == [a \in DOMAIN Spell, b \in DOMAIN Spell |-> CharsLess(Spell[a], Spell[b])]
StrLess(a, b) == LessTable[a, b]

\* sorted(S) of a set of strings
RECURSIVE Sorted(_)
Sorted(S) ==
    IF S = {} THEN <<>>
    ELSE LET m == CHOOSE x \in S : \A y \in S \ {x} : StrLess(x, y)
         IN  <<m>> \o Sorted(S \ {m})

\* dict.get(key, default)
Get(w, key, default) == IF key \in DOMAIN w THEN w[key] ELSE default

\* a dict: its keys in insertion order and its values
EmptyDict == [keys |-> <<>>, at |-> <<>>]

DictSet(d, key, val) ==
    [keys |-> IF key \in Range(d.keys) THEN d.keys ELSE Append(d.keys, key),
     at |-> (key :> val) @@ d.at]

\* {w["WORK_ID"]: w for w in list}
RECURSIVE WorksDict(_)
WorksDict(list) ==
    IF list = <<>> THEN EmptyDict
    ELSE LET w == list[Len(list)]
         IN  DictSet(WorksDict(SubSeq(list, 1, Len(list) - 1)), w.WORK_ID, w)

-----------------------------------------------------------------------------
(* Paths and files *)

composer_folder(work_id) == <<SCORES_ROOT, Slice(work_id, ComposerLen)>>

pdf_path(work_id, version) ==
    [dir |-> composer_folder(work_id),
     name |-> <<work_id, "-", version, ".pdf">>]

merged_pdf_path(work_base, version) ==
    [dir |-> composer_folder(work_base),
     name |-> <<work_base, "-", version, ".pdf">>]

\* os.remove / open(path, "wb").write
Remove(d, path) == [q \in DOMAIN d \ {path} |-> d[q]]
Write(d, path, content) == (path :> content) @@ d

\* A file: its size, whether pdfinfo accepts it, and what it renders
\* (rev: the upstream revisions of the items it was made from).
Garbage(size) == [size |-> size, wellformed |-> FALSE, rev |-> <<>>]
Blank == [size |-> MIN_VALID_SIZE - 1, wellformed |-> TRUE, rev |-> <<>>]
Rendering(rev) == [size |-> MIN_VALID_SIZE, wellformed |-> TRUE, rev |-> rev]

\* is_valid_pdf: "True", "False", or the exception that escapes it.
\* launch = FALSE: subprocess.run could not start pdfinfo (an OSError, which
\* the handler for CalledProcessError does not catch).
is_valid_pdf(d, path, launch) ==
    IF path \notin DOMAIN d THEN "False"
    ELSE IF d[path].size < MIN_VALID_SIZE THEN "False"
    ELSE IF ~launch THEN "OSError"
    ELSE IF d[path].wellformed THEN "True"
    ELSE "False"

-----------------------------------------------------------------------------
(* The outside world *)

\* requests.get(url, timeout=30) for an artifact whose upstream revision is rev:
\* a transport error, an error status, or a body.
Responses(rev) ==
    {[error |-> TRUE, status |-> 0, content |-> Blank],
     [error |-> FALSE, status |-> 500, content |-> Blank],
     [error |-> FALSE, status |-> 200, content |-> Blank],
     [error |-> FALSE, status |-> 200, content |-> Garbage(MIN_VALID_SIZE)],
     [error |-> FALSE, status |-> 200, content |-> Rendering(rev)]}

\* pdfunite inputs... output: could not start, failed with or without a
\* partial output, or exited 0 having written an output.
RECURSIVE ConcatRev(_, _)
ConcatRev(d, paths) ==
    IF paths = <<>> THEN <<>>
    ELSE d[Head(paths)].rev \o ConcatRev(d, Tail(paths))

ToolRuns(d, inputs) ==
    {[started |-> FALSE, code |-> 1, out |-> <<>>],
     [started |-> TRUE, code |-> 1, out |-> <<>>],
     [started |-> TRUE, code |-> 1, out |-> <<Garbage(MIN_VALID_SIZE)>>],
     [started |-> TRUE, code |-> 0, out |-> <<Garbage(MIN_VALID_SIZE)>>],
     [started |-> TRUE, code |-> 0, out |-> <<Rendering(ConcatRev(d, inputs))>>]}

\* The ordinal, among a handler's calls of is_valid_pdf, of the one call at
\* which pdfinfo cannot be started (0: none).
Faults(section_ids) == 0..Len(section_ids) + 2

-----------------------------------------------------------------------------
(* What a call did: the store it leaves and what the properties look at *)

Outcome(d, ledger, path, ret, raised, requested, removed, wrote, failed, inputs) ==
    [disk |-> d, ledger |-> ledger, path |-> path, ret |-> ret, raised |-> raised,
     requested |-> requested, removed |-> removed, wrote |-> wrote,
     failed |-> failed, inputs |-> inputs, exit |-> "none"]

\* the outcome of a call that ran pdfunite, with how pdfunite ended: "none"
\* when it could not be started
Exited(o, tool) ==
    [o EXCEPT !.exit = IF ~tool.started THEN "none"
                       ELSE IF tool.code = 0 THEN "zero" ELSE "nonzero"]

NoPath == [dir |-> <<>>, name |-> <<>>]

-----------------------------------------------------------------------------
(* JRP_scraper.download_pdf *)

\* a variant of the skip test that reads the force flag upside down
SkipExisting_inverted(d, output_path, force, launch) ==
    IF ~force THEN "False"
    ELSE IF output_path \notin DOMAIN d THEN "False"
    ELSE is_valid_pdf(d, output_path, launch)

\* lines 124-128: "True" skips, "False" fetches, otherwise the exception
SkipExisting(d, output_path, force, launch) ==
    IF force THEN "False"
    ELSE IF output_path \notin DOMAIN d THEN "False"
    ELSE is_valid_pdf(d, output_path, launch)

\* lines 132-134
RemoveOld(d, output_path) ==
    IF output_path \in DOMAIN d THEN Remove(d, output_path) ELSE d

\* lines 139-151: the body of the try; TRUE when no exception is raised.
\* An OSError from is_valid_pdf is an exception like the others here.
FetchSucceeds(d, output_path, resp, launch) ==
    /\ ~resp.error
    /\ resp.status < 400
    /\ resp.content.size >= MIN_VALID_SIZE
    /\ is_valid_pdf(Write(d, output_path, resp.content), output_path, launch) = "True"

\* lines 153-159: the except branch
FetchFailed(d, ledger, output_path) ==
    [disk |-> IF output_path \in DOMAIN d THEN Remove(d, output_path) ELSE d,
     ledger |-> Append(ledger, output_path)]

download_pdf(d, ledger, work_id, version, force, resp, fault) ==
    LET output_path == pdf_path(work_id, version)
        skip == SkipExisting(d, output_path, force, fault # 1)
        \* is_valid_pdf is called in the skip test only when force is off and the path exists
        nskip == IF ~force /\ output_path \in DOMAIN d THEN 1 ELSE 0
        d1 == RemoveOld(d, output_path)
        written == ~resp.error /\ resp.status < 400
        d2 == IF written THEN Write(d1, output_path, resp.content) ELSE d1
        f == FetchFailed(d2, ledger, output_path)
    IN  IF skip = "OSError"
        THEN Outcome(d, ledger, output_path, <<>>, TRUE, FALSE, FALSE, FALSE, FALSE, <<>>)
        ELSE IF skip = "True"
        THEN Outcome(d, ledger, output_path, <<output_path>>, FALSE, FALSE, FALSE,
                     FALSE, FALSE, <<>>)
        ELSE IF FetchSucceeds(d1, output_path, resp, fault # nskip + 1)
        THEN Outcome(d2, ledger, output_path, <<output_path>>, FALSE, TRUE,
                     output_path \in DOMAIN d, TRUE, FALSE, <<>>)
        ELSE Outcome(f.disk, f.ledger, output_path, <<>>, FALSE, TRUE,
                     output_path \in DOMAIN d, written, TRUE, <<>>)

-----------------------------------------------------------------------------
(* JRP_scraper.merge_work *)

\* a variant of the member filter that takes every member that exists
RECURSIVE ValidFiles_existing(_, _, _, _, _)
ValidFiles_existing(d, section_ids, version, fault, n) ==
    IF section_ids = <<>> THEN [files |-> <<>>, raised |-> FALSE]
    ELSE LET path == pdf_path(Head(section_ids), version)
             rest == ValidFiles_existing(d, Tail(section_ids), version, fault, n + 1)
         IN  [files |-> (IF path \in DOMAIN d THEN <<path>> ELSE <<>>) \o rest.files,
              raised |-> FALSE]

\* lines 168-173: the members that validate, in the order given; raised when
\* an is_valid_pdf call lets its exception escape. n: calls made before.
RECURSIVE ValidFiles(_, _, _, _, _)
ValidFiles(d, section_ids, version, fault, n) ==
    IF section_ids = <<>> THEN [files |-> <<>>, raised |-> FALSE]
    ELSE LET path == pdf_path(Head(section_ids), version)
             v == is_valid_pdf(d, path, fault # n + 1)
             rest == ValidFiles(d, Tail(section_ids), version, fault, n + 1)
         IN  IF v = "OSError" THEN [files |-> <<>>, raised |-> TRUE]
             ELSE IF rest.raised THEN rest
             ELSE [files |-> (IF v = "True" THEN <<path>> ELSE <<>>) \o rest.files,
                   raised |-> FALSE]

\* line 180: "True" skips the merge
CompositeExists(d, output_path, launch) ==
    IF output_path \notin DOMAIN d THEN "False"
    ELSE is_valid_pdf(d, output_path, launch)

\* pdfunite writes (or overwrites) the output when it produced one
RunTool(d, output_path, tool) ==
    IF tool.started /\ tool.out # <<>> THEN Write(d, output_path, tool.out[1]) ELSE d

\* lines 186-192: the body of the try; TRUE when no exception is raised
MergeSucceeds(d, output_path, tool, launch) ==
    /\ tool.started
    /\ tool.code = 0
    /\ is_valid_pdf(RunTool(d, output_path, tool), output_path, launch) = "True"

\* a variant of the except branch that does not list the output
MergeFailed_unlisted(d, ledger, output_path) ==
    [disk |-> IF output_path \in DOMAIN d THEN Remove(d, output_path) ELSE d,
     ledger |-> ledger]

\* lines 194-198: the except branch
MergeFailed(d, ledger, output_path) ==
    [disk |-> IF output_path \in DOMAIN d THEN Remove(d, output_path) ELSE d,
     ledger |-> Append(ledger, output_path)]

merge_work(d, ledger, section_ids, work_base, version, tool, fault) ==
    LET vf == ValidFiles(d, section_ids, version, fault, 0)
        n == Len(section_ids)
        output_path == merged_pdf_path(work_base, version)
        exists == CompositeExists(d, output_path, fault # n + 1)
        nexists == IF output_path \in DOMAIN d THEN 1 ELSE 0
        d1 == RunTool(d, output_path, tool)
        f == MergeFailed(d1, ledger, output_path)
    IN  IF vf.raised
        THEN Outcome(d, ledger, output_path, <<>>, TRUE, FALSE, FALSE, FALSE, FALSE, <<>>)
        ELSE IF Len(vf.files) < 2
        THEN Outcome(d, ledger, output_path, <<>>, FALSE, FALSE, FALSE, FALSE, FALSE, vf.files)
        ELSE IF exists = "OSError"
        THEN Outcome(d, ledger, output_path, <<>>, TRUE, FALSE, FALSE, FALSE, FALSE,
                     vf.files)
        ELSE IF exists = "True"
        THEN Outcome(d, ledger, output_path, <<>>, FALSE, FALSE, FALSE, FALSE, FALSE,
                     vf.files)
        ELSE IF MergeSucceeds(d, output_path, tool, fault # n + nexists + 1)
        THEN Exited(Outcome(d1, ledger, output_path, <<output_path>>, FALSE, TRUE,
                            FALSE, TRUE, FALSE, vf.files), tool)
        ELSE Exited(Outcome(f.disk, f.ledger, output_path, <<>>, FALSE, TRUE, FALSE,
                            tool.started /\ tool.out # <<>>, TRUE, vf.files), tool)

-----------------------------------------------------------------------------
(* JRP_scraper.report_metadata_differences *)

DictKeys(d) == Range(d.keys)

\* a variant of the reconciler that compares the whole records of an id, so
\* that a missing date and an empty one differ
report_metadata_differences_by_record(old, new) ==
    LET old_ids == DictKeys(old)
        new_ids == DictKeys(new)
        both == Sorted(old_ids \cap new_ids)
    IN  [added |-> Sorted(new_ids \ old_ids),
         removed |-> Sorted(old_ids \ new_ids),
         updated |-> SelectSeq([n \in DOMAIN both |->
                                   <<both[n], Get(old.at[both[n]], "DATE_CHANGED", ""),
                                     Get(new.at[both[n]], "DATE_CHANGED", "")>>],
                               LAMBDA t : old.at[t[1]] # new.at[t[1]]),
         unchanged |-> SelectSeq(both, LAMBDA id : old.at[id] = new.at[id])]

report_metadata_differences(old, new) ==
    LET old_ids == DictKeys(old)
        new_ids == DictKeys(new)
        both == Sorted(old_ids \cap new_ids)
        old_date(n) == Get(old.at[both[n]], "DATE_CHANGED", "")
        new_date(n) == Get(new.at[both[n]], "DATE_CHANGED", "")
    IN  [added |-> Sorted(new_ids \ old_ids),
         removed |-> Sorted(old_ids \ new_ids),
         updated |-> SelectSeq([n \in DOMAIN both |->
                                   <<both[n], old_date(n), new_date(n)>>],
                               LAMBDA t : t[2] # t[3]),
         unchanged |-> SelectSeq(both,
                                 LAMBDA id : Get(old.at[id], "DATE_CHANGED", "")
                                                 = Get(new.at[id], "DATE_CHANGED", ""))]

NoDiff == [added |-> <<>>, removed |-> <<>>, updated |-> <<>>, unchanged |-> <<>>]

-----------------------------------------------------------------------------
(* JRP_scraper.main *)

\* a variant of the force decision that looks at new ids only
force_download_added_only(old, work_id, work) ==
    work_id \notin DictKeys(old)

\* lines 271-281
force_download(old, work_id, work) ==
    IF work_id \notin DictKeys(old) THEN TRUE
    ELSE Get(old.at[work_id], "DATE_CHANGED", "") # Get(work, "DATE_CHANGED", "")

\* lines 268-269: work_groups[base].append(work_id)
GroupAppend(groups, work_id) ==
    LET base == Slice(work_id, BaseLen)
    IN  DictSet(groups, base, Append(Get(groups.at, base, <<>>), work_id))

\* a variant of main that leaves the members in the order of the catalog
SortSections_as_listed(sections) == sections

\* line 292: sections.sort()
SortSections(sections) == Sorted(Range(sections))

\* what the artifact source serves for an item: the rendering of the revision
\* the retrieved record carries
Revision(work) == <<Get(work, "DATE_CHANGED", "")>>

Running == {"loaded", "sync", "merge", "update_cache", "write_report"}
Stopped == {"idle", "done", "interrupted", "aborted"}

store == <<disk, cache, report>>
memory == <<old_works, new_works, new_list, diff, i, k, work_groups, missing_or_failed>>

NoCall ==
    [op |-> "none", arg |-> <<>>, force |-> FALSE, pre |-> <<>>, appended |-> 0]
        @@ Outcome(<<>>, <<>>, NoPath, <<>>, FALSE, FALSE, FALSE, FALSE, FALSE, <<>>)

\* the record of a call: its first argument and its force flag, the file it
\* found at its output path, and its outcome
Call(op, arg, force, d, ledger, o) ==
    [op |-> op, arg |-> arg, force |-> force,
     pre |-> IF o.path \in DOMAIN d THEN <<d[o.path]>> ELSE <<>>,
     appended |-> Len(o.ledger) - Len(ledger)]
        @@ [o EXCEPT !.disk = <<>>, !.ledger = <<>>]

NoPrev == [outcome |-> "idle", list |-> <<>>, fetched |-> {}]

NoHist ==
    [cache0 |-> <<>>, obtained |-> FALSE, written |-> {}, requests |-> {},
     fetched |-> {}, failures |-> {}, calls |-> 0, prev |-> NoPrev, seen |-> {}]

Init ==
    /\ disk = <<>>
    /\ cache = <<>>
    /\ report = <<>>
    /\ pc = "idle"
    /\ old_works = EmptyDict
    /\ new_works = EmptyDict
    /\ new_list = <<>>
    /\ diff = NoDiff
    /\ i = 1
    /\ k = 1
    /\ work_groups = EmptyDict
    /\ missing_or_failed = <<>>
    /\ runs = 0
    /\ faults = 0
    /\ last = NoCall
    /\ hist = NoHist

\* what the next run's properties need of this one: how it ended and, when it
\* was killed, what it had fetched and validated, and against which catalog
Prev(outcome) ==
    IF outcome = "interrupted" /\ hist.fetched # {}
    THEN [outcome |-> outcome, list |-> new_list, fetched |-> hist.fetched]
    ELSE [outcome |-> outcome, list |-> <<>>, fetched |-> {}]

\* The process ends without reaching the end of main (killed, or an exception
\* left main): its memory is gone, the store stays.
Stop(outcome) ==
    /\ pc' = outcome
    /\ old_works' = EmptyDict
    /\ new_works' = EmptyDict
    /\ new_list' = <<>>
    /\ diff' = NoDiff
    /\ i' = 1
    /\ k' = 1
    /\ work_groups' = EmptyDict
    /\ missing_or_failed' = <<>>
    /\ hist' = [NoHist EXCEPT !.cache0 = hist.cache0,
                              !.obtained = hist.obtained,
                              !.prev = Prev(outcome),
                              !.seen = hist.seen]

\* The source's change dates, in time order.
DateOrder == <<"2020", "2021">>
Earlier(a, b) ==
    \E m, n \in DOMAIN DateOrder : m < n /\ DateOrder[m] = a /\ DateOrder[n] = b

\* the latest record served so far for each id, this catalog included
Seen(list) ==
    {r \in hist.seen : \A n \in DOMAIN list : list[n].WORK_ID # r.WORK_ID}
        \cup Range(list)

\* no record of the catalog is dated before a record served earlier for its id
Forward(list) ==
    \A n \in DOMAIN list, r \in hist.seen :
        r.WORK_ID = list[n].WORK_ID => ~Earlier(list[n].DATE_CHANGED, r.DATE_CHANGED)

\* A new process: module-level state is fresh, the store is what was left.
\* load_works, lines 42-59: the cache is read, then the catalog retrieved;
\* a failed retrieval raises out of main. forward: the source's change dates
\* never move back, and the records it served are remembered to see to that.
Load(forward) ==
    /\ pc \in Stopped
    /\ runs < MaxRuns
    /\ runs' = runs + 1
    /\ LET prev == IF pc = "done" THEN Prev("done") ELSE hist.prev
           h == [NoHist EXCEPT !.cache0 = cache, !.prev = prev, !.seen = hist.seen]
       IN  \/ \E list \in Catalogs :
                /\ forward => Forward(list)
                /\ old_works' = IF cache = <<>> THEN EmptyDict ELSE WorksDict(cache[1])
                /\ new_list' = list
                /\ new_works' = WorksDict(list)
                /\ pc' = "loaded"
                /\ hist' = [h EXCEPT !.obtained = TRUE,
                                     !.seen = IF forward THEN Seen(list) ELSE @]
                /\ faults' = faults
           \/ /\ faults < MaxFaults
              /\ faults' = faults + 1
              /\ old_works' = EmptyDict
              /\ new_list' = <<>>
              /\ new_works' = EmptyDict
              /\ pc' = "aborted"
              /\ hist' = h
    /\ missing_or_failed' = <<>>
    /\ diff' = NoDiff
    /\ i' = 1
    /\ k' = 1
    /\ work_groups' = EmptyDict
    /\ last' = NoCall
    /\ UNCHANGED store

LoadWorks == Load(FALSE)

\* lines 260-262
Reconcile ==
    /\ pc = "loaded"
    /\ diff' = report_metadata_differences(old_works, new_works)
    /\ pc' = "sync"
    /\ UNCHANGED <<store, old_works, new_works, new_list, i, k, work_groups,
                   missing_or_failed, runs, faults, last, hist>>

\* bookkeeping of a returned call: the paths written, the artifacts requested
\* from the source, those fetched and validated, and the paths that failed
Noted(h, op, o) ==
    [h EXCEPT !.written = IF o.wrote THEN @ \cup {o.path} ELSE @,
              !.requests = IF op = "download_pdf" /\ o.requested THEN @ \cup {o.path}
                           ELSE @,
              !.fetched = IF op = "download_pdf" /\ o.requested /\ o.ret # <<>>
                          THEN @ \cup {o.path} ELSE @,
              !.failures = IF o.failed THEN @ \cup {o.path} ELSE @,
              !.calls = @ + 1]

\* a call returns (the loop goes on) or its exception leaves main
Returned(op, arg, force, o) ==
    /\ disk' = o.disk
    /\ last' = Call(op, arg, force, disk, missing_or_failed, o)
    /\ IF o.raised
       THEN Stop("aborted")
       ELSE /\ pc' = pc
            /\ missing_or_failed' = o.ledger
            /\ hist' = Noted(hist, op, o)
            /\ i' = IF k = 2 THEN i + 1 ELSE i
            /\ k' = IF k = 2 THEN 1 ELSE 2
            /\ UNCHANGED <<old_works, new_works, new_list, diff>>

\* the environment misbehaved when the call did not go as in the good case
Charged(o, good) ==
    LET cost == IF o = good THEN 0 ELSE 1
    IN  /\ faults + cost <= MaxFaults
        /\ faults' = faults + cost

\* lines 266-284: one call of download_pdf in the loop over new_works.items();
\* the first call of an iteration follows the grouping and the force decision
Download ==
    /\ pc = "sync"
    /\ i <= Len(new_works.keys)
    /\ LET work_id == new_works.keys[i]
           work == new_works.at[work_id]
           force == force_download(old_works, work_id, work)
           rev == Revision(work)
           good == download_pdf(disk, missing_or_failed, work_id, Versions[k], force,
                                [error |-> FALSE, status |-> 200,
                                 content |-> Rendering(rev)], 0)
       IN  \E resp \in Responses(rev), fault \in 0..2 :
             LET o == download_pdf(disk, missing_or_failed, work_id, Versions[k],
                                   force, resp, fault)
             IN  /\ Charged(o, good)
                 /\ Returned("download_pdf", work_id, force, o)
                 /\ IF o.raised THEN TRUE
                    ELSE work_groups' = IF k = 1 THEN GroupAppend(work_groups, work_id)
                                        ELSE work_groups
    /\ UNCHANGED <<cache, report, runs>>

\* a variant of main that saves the cache as soon as the items are done
SyncDone_saving ==
    /\ pc = "sync"
    /\ i > Len(new_works.keys)
    /\ pc' = "merge"
    /\ i' = 1
    /\ cache' = <<new_list>>
    /\ UNCHANGED <<disk, report, old_works, new_works, new_list, diff, k, work_groups,
                   missing_or_failed, runs, faults, last, hist>>

\* line 287: the loop over the items is over
SyncDone ==
    /\ pc = "sync"
    /\ i > Len(new_works.keys)
    /\ pc' = "merge"
    /\ i' = 1
    /\ UNCHANGED <<store, old_works, new_works, new_list, diff, k, work_groups,
                   missing_or_failed, runs, faults, last, hist>>

\* lines 289-290
SkipSingle ==
    /\ pc = "merge"
    /\ i <= Len(work_groups.keys)
    /\ Len(work_groups.at[work_groups.keys[i]]) < 2
    /\ i' = i + 1
    /\ UNCHANGED <<store, pc, old_works, new_works, new_list, diff, k, work_groups,
                   missing_or_failed, runs, faults, last, hist>>

\* lines 292-295: one call of merge_work; the first follows sections.sort()
\* (base, sections, inputs and good are bound once, before the environment's
\* choice of tool run and fault)
Merge ==
    /\ pc = "merge"
    /\ i <= Len(work_groups.keys)
    /\ \E base \in {work_groups.keys[i]} :
       \E sections \in {SortSections(work_groups.at[base])} :
       \E inputs \in {ValidFiles(disk, sections, Versions[k], 0, 0).files} :
       \E good \in {merge_work(disk, missing_or_failed, sections, base, Versions[k],
                              [started |-> TRUE, code |-> 0,
                               out |-> <<Rendering(ConcatRev(disk, inputs))>>], 0)} :
           /\ Len(work_groups.at[base]) >= 2
           /\ \E tool \in ToolRuns(disk, inputs), fault \in Faults(sections) :
                LET o == merge_work(disk, missing_or_failed, sections, base,
                                    Versions[k], tool, fault)
                IN  /\ Charged(o, good)
                    /\ Returned("merge_work", sections, FALSE, o)
                    /\ IF o.raised THEN TRUE
                       ELSE work_groups' = [work_groups EXCEPT !.at[base] = sections]
    /\ UNCHANGED <<cache, report, runs>>

\* line 297: the loop over the groups is over
MergeDone ==
    /\ pc = "merge"
    /\ i > Len(work_groups.keys)
    /\ pc' = "update_cache"
    /\ UNCHANGED <<store, old_works, new_works, new_list, diff, i, k, work_groups,
                   missing_or_failed, runs, faults, last, hist>>

\* lines 298-299
UpdateCache ==
    /\ pc = "update_cache"
    /\ cache' = <<new_list>>
    /\ pc' = "write_report"
    /\ UNCHANGED <<disk, report, memory, runs, faults, last, hist>>

\* lines 301-307
WriteReport ==
    /\ pc = "write_report"
    /\ report' = IF missing_or_failed # <<>> THEN <<missing_or_failed>> ELSE report
    /\ pc' = "done"
    /\ UNCHANGED <<disk, cache, memory, runs, faults, last, hist>>

\* The process is killed between two calls.
Interrupt ==
    /\ pc \in Running
    /\ faults < MaxFaults
    /\ faults' = faults + 1
    /\ Stop("interrupted")
    /\ last' = NoCall
    /\ UNCHANGED <<store, runs>>

\* The process is killed inside download_pdf, past the skip test: after the
\* old file was removed (line 134) or after the body was written (line 143).
KillInDownload ==
    /\ pc = "sync"
    /\ i <= Len(new_works.keys)
    /\ faults < MaxFaults
    /\ faults' = faults + 1
    /\ LET work_id == new_works.keys[i]
           work == new_works.at[work_id]
           force == force_download(old_works, work_id, work)
           output_path == pdf_path(work_id, Versions[k])
           d1 == RemoveOld(disk, output_path)
       IN  /\ SkipExisting(disk, output_path, force, TRUE) = "False"
           /\ \/ disk' = d1
              \/ \E resp \in Responses(Revision(work)) :
                    /\ ~resp.error
                    /\ resp.status < 400
                    /\ disk' = Write(d1, output_path, resp.content)
    /\ Stop("interrupted")
    /\ last' = NoCall
    /\ UNCHANGED <<cache, report, runs>>

\* The process is killed inside merge_work while pdfunite runs or right after
\* it (lines 186-189): whatever was written of the output stays.
KillInMerge ==
    /\ pc = "merge"
    /\ i <= Len(work_groups.keys)
    /\ faults < MaxFaults
    /\ faults' = faults + 1
    /\ LET base == work_groups.keys[i]
           sections == SortSections(work_groups.at[base])
           vf == ValidFiles(disk, sections, Versions[k], 0, 0)
           output_path == merged_pdf_path(base, Versions[k])
       IN  /\ Len(sections) >= 2
           /\ Len(vf.files) >= 2
           /\ CompositeExists(disk, output_path, TRUE) = "False"
           /\ \E tool \in ToolRuns(disk, vf.files) :
                /\ tool.started
                /\ tool.out # <<>>
                /\ disk' = RunTool(disk, output_path, tool)
    /\ Stop("interrupted")
    /\ last' = NoCall
    /\ UNCHANGED <<cache, report, runs>>

Next ==
    \/ LoadWorks
    \/ Reconcile
    \/ Download
    \/ SyncDone
    \/ SkipSingle
    \/ Merge
    \/ MergeDone
    \/ UpdateCache
    \/ WriteReport
    \/ Interrupt
    \/ KillInDownload
    \/ KillInMerge

Spec == Init /\ [][Next]_vars

-----------------------------------------------------------------------------
(* The runs of JRP_scraper against a source whose change dates only move    *)
(* forward                                                                  *)

LoadWorksForward == Load(TRUE)

NextForward ==
    \/ LoadWorksForward
    \/ Reconcile
    \/ Download
    \/ SyncDone
    \/ SkipSingle
    \/ Merge
    \/ MergeDone
    \/ UpdateCache
    \/ WriteReport
    \/ Interrupt
    \/ KillInDownload
    \/ KillInMerge

SpecForward == Init /\ [][NextForward]_vars

-----------------------------------------------------------------------------
(* The reconciler and the driver's force decision are functions of the two  *)
(* snapshots alone: main up to the end of the loop over the items, on an    *)
(* empty disk, from every pair of small snapshots, dates empty or missing   *)
(* too                                                                      *)

\* the snapshots, one list for each dict: the order of a dict's keys plays no
\* part in the reconciliation nor in the force decision of an item
LooseLists ==
    {l \in Lists(LooseRecords) :
        \A n \in 1..Len(l) - 1 : StrLess(l[n].WORK_ID, l[n + 1].WORK_ID)}

InitDiff ==
    /\ \E old \in LooseLists, new \in LooseLists :
            /\ old_works = WorksDict(old)
            /\ new_works = WorksDict(new)
            /\ new_list = new
            /\ cache = <<old>>
    /\ disk = <<>>
    /\ report = <<>>
    /\ pc = "loaded"
    /\ diff = NoDiff
    /\ i = 1
    /\ k = 1
    /\ work_groups = EmptyDict
    /\ missing_or_failed = <<>>
    /\ runs = 1
    /\ faults = MaxFaults     \* the environment behaves in this specification
    /\ last = NoCall
    /\ hist = [NoHist EXCEPT !.obtained = TRUE, !.cache0 = cache]

NextDiff ==
    \/ Reconcile
    \/ Download
    \/ SyncDone

SpecDiff == InitDiff /\ [][NextDiff]_vars

-----------------------------------------------------------------------------
(* Josquin_PDF_scraper.py: no cache and no force flag; its own directories  *)

section_path(section_id, version) ==
    [dir |-> <<SECTION_DIR>>, name |-> <<section_id, "-", version, ".pdf">>]

merged_path(work_base, version) ==
    [dir |-> <<MERGED_DIR>>, name |-> <<work_base, "-", version, ".pdf">>]

\* download_pdf, lines 62-117
Josquin_download_pdf(d, ledger, section_id, version, resp, fault) ==
    LET output_path == section_path(section_id, version)
        skip == IF output_path \in DOMAIN d THEN is_valid_pdf(d, output_path, fault # 1)
                ELSE "False"
        nskip == IF output_path \in DOMAIN d THEN 1 ELSE 0
        d1 == IF output_path \in DOMAIN d THEN Remove(d, output_path) ELSE d
        written == ~resp.error /\ resp.status < 400
        d2 == IF written THEN Write(d1, output_path, resp.content) ELSE d1
        check == is_valid_pdf(d2, output_path, fault # nskip + 1)
        d3 == IF output_path \in DOMAIN d2 THEN Remove(d2, output_path) ELSE d2
    IN  IF skip = "OSError"
        THEN Outcome(d, ledger, output_path, <<>>, TRUE, FALSE, FALSE, FALSE, FALSE, <<>>)
        ELSE IF skip = "True"
        THEN Outcome(d, ledger, output_path, <<output_path>>, FALSE, FALSE, FALSE,
                     FALSE, FALSE, <<>>)
        ELSE IF written /\ resp.content.size >= MIN_VALID_SIZE /\ check = "True"
        THEN Outcome(d2, ledger, output_path, <<output_path>>, FALSE, TRUE,
                     output_path \in DOMAIN d, TRUE, FALSE, <<>>)
        ELSE Outcome(d3, Append(ledger, output_path), output_path, <<>>, FALSE, TRUE,
                     output_path \in DOMAIN d, written, TRUE, <<>>)

\* merge_work, lines 126-130: the paths that validate
RECURSIVE Josquin_ValidFiles(_, _, _, _)
Josquin_ValidFiles(d, section_files, fault, n) ==
    IF section_files = <<>> THEN [files |-> <<>>, raised |-> FALSE]
    ELSE LET path == Head(section_files)
             v == is_valid_pdf(d, path, fault # n + 1)
             rest == Josquin_ValidFiles(d, Tail(section_files), fault, n + 1)
         IN  IF v = "OSError" THEN [files |-> <<>>, raised |-> TRUE]
             ELSE IF rest.raised THEN rest
             ELSE [files |-> (IF v = "True" THEN <<path>> ELSE <<>>) \o rest.files,
                   raised |-> FALSE]

\* merge_work, lines 124-157. Only CalledProcessError is caught: a pdfunite
\* that cannot be started, or an is_valid_pdf that raises, leaves main.
Josquin_merge_work(d, ledger, section_files, work_base, version, tool, fault) ==
    LET vf == Josquin_ValidFiles(d, section_files, fault, 0)
        n == Len(section_files)
        output_path == merged_path(work_base, version)
        d1 == RunTool(d, output_path, tool)
        wrote == tool.started /\ tool.out # <<>>
        check == is_valid_pdf(d1, output_path, fault # n + 1)
    IN  IF vf.raised
        THEN Outcome(d, ledger, output_path, <<>>, TRUE, FALSE, FALSE, FALSE, FALSE, <<>>)
        ELSE IF Len(vf.files) < 2
        THEN Outcome(d, ledger, output_path, <<>>, FALSE, FALSE, FALSE, FALSE, FALSE, vf.files)
        ELSE IF ~tool.started
        THEN Outcome(d, ledger, output_path, <<>>, TRUE, TRUE, FALSE, FALSE, TRUE,
                     vf.files)
        ELSE IF tool.code # 0
        THEN Exited(Outcome(d1, Append(ledger, output_path), output_path, <<>>, FALSE,
                            TRUE, FALSE, wrote, TRUE, vf.files), tool)
        ELSE IF check = "OSError"
        THEN Exited(Outcome(d1, ledger, output_path, <<>>, TRUE, TRUE, FALSE, wrote,
                            TRUE, vf.files), tool)
        ELSE IF check = "True"
        THEN Exited(Outcome(d1, ledger, output_path, <<output_path>>, FALSE, TRUE,
                            FALSE, wrote, FALSE, vf.files), tool)
        ELSE Exited(Outcome(Remove(d1, output_path), Append(ledger, output_path),
                            output_path, <<>>, output_path \notin DOMAIN d1, TRUE, FALSE,
                            wrote, TRUE, vf.files), tool)

\* main, lines 166-167: works.json is read from the working directory
Josquin_LoadWorks ==
    /\ pc \in Stopped
    /\ runs < MaxRuns
    /\ runs' = runs + 1
    /\ \E works \in Catalogs :
         /\ new_list' = works
         /\ new_works' = WorksDict(works)
    /\ old_works' = EmptyDict
    /\ pc' = "sync"
    /\ hist' = [NoHist EXCEPT !.cache0 = cache, !.obtained = TRUE,
                              !.prev = IF pc = "done" THEN Prev("done") ELSE hist.prev]
    /\ missing_or_failed' = <<>>
    /\ diff' = NoDiff
    /\ i' = 1
    /\ k' = 1
    /\ work_groups' = EmptyDict
    /\ last' = NoCall
    /\ UNCHANGED <<store, faults>>

\* main, lines 172-181: one call of download_pdf; the grouping follows the second
Josquin_Download ==
    /\ pc = "sync"
    /\ i <= Len(new_list)
    /\ LET work == new_list[i]
           work_id == work.WORK_ID
           rev == Revision(work)
           good == Josquin_download_pdf(disk, missing_or_failed, work_id, Versions[k],
                                        [error |-> FALSE, status |-> 200,
                                         content |-> Rendering(rev)], 0)
       IN  \E resp \in Responses(rev), fault \in 0..2 :
             LET o == Josquin_download_pdf(disk, missing_or_failed, work_id,
                                           Versions[k], resp, fault)
             IN  /\ Charged(o, good)
                 /\ Returned("download_pdf", work_id, FALSE, o)
                 /\ IF o.raised THEN TRUE
                    ELSE work_groups' = IF k = 2 THEN GroupAppend(work_groups, work_id)
                                        ELSE work_groups
    /\ UNCHANGED <<cache, report, runs>>

\* main, line 187: the loop over the works is over
Josquin_SyncDone ==
    /\ pc = "sync"
    /\ i > Len(new_list)
    /\ pc' = "merge"
    /\ i' = 1
    /\ UNCHANGED <<store, old_works, new_works, new_list, diff, k, work_groups,
                   missing_or_failed, runs, faults, last, hist>>

\* main, lines 195-209: one call of merge_work on the members' paths
Josquin_Merge ==
    /\ pc = "merge"
    /\ i <= Len(work_groups.keys)
    /\ \E base \in {work_groups.keys[i]} :
       \E sections \in {SortSections(work_groups.at[base])} :
       \E paths \in {[n \in DOMAIN sections |-> section_path(sections[n], Versions[k])]} :
       \E inputs \in {Josquin_ValidFiles(disk, paths, 0, 0).files} :
       \E good \in {Josquin_merge_work(disk, missing_or_failed, paths, base, Versions[k],
                                      [started |-> TRUE, code |-> 0,
                                       out |-> <<Rendering(ConcatRev(disk, inputs))>>], 0)} :
           /\ Len(work_groups.at[base]) >= 2
           /\ \E tool \in ToolRuns(disk, inputs), fault \in Faults(sections) :
                LET o == Josquin_merge_work(disk, missing_or_failed, paths, base,
                                            Versions[k], tool, fault)
                IN  /\ Charged(o, good)
                    /\ Returned("merge_work", paths, FALSE, o)
                    /\ IF o.raised THEN TRUE
                       ELSE work_groups' = [work_groups EXCEPT !.at[base] = sections]
    /\ UNCHANGED <<cache, report, runs>>

\* main, line 215: the loop over the groups is over
Josquin_MergeDone ==
    /\ pc = "merge"
    /\ i > Len(work_groups.keys)
    /\ pc' = "write_report"
    /\ UNCHANGED <<store, old_works, new_works, new_list, diff, i, k, work_groups,
                   missing_or_failed, runs, faults, last, hist>>

\* main, lines 215-222
Josquin_WriteReport ==
    /\ pc = "write_report"
    /\ report' = IF missing_or_failed # <<>> THEN <<missing_or_failed>> ELSE report
    /\ pc' = "done"
    /\ UNCHANGED <<disk, cache, memory, runs, faults, last, hist>>

NextJosquin ==
    \/ Josquin_LoadWorks
    \/ Josquin_Download
    \/ Josquin_SyncDone
    \/ SkipSingle
    \/ Josquin_Merge
    \/ Josquin_MergeDone
    \/ Josquin_WriteReport
    \/ Interrupt

SpecJosquin == Init /\ [][NextJosquin]_vars

-----------------------------------------------------------------------------
(* download_pdf and merge_work, of either script, are functions of their    *)
(* arguments, of the files they find and of what the network and the tools  *)
(* answer: one call of one of them, on every small disk. The files found    *)
(* are those earlier runs (killed ones too) or anything else left in the    *)
(* output directories.                                                      *)

Leftovers == {Blank, Garbage(MIN_VALID_SIZE), Rendering(<<"2020">>)}

\* the disks that hold files of one version only
Disks ==
    UNION {UNION {[D -> Leftovers] : D \in SUBSET {pdf_path(id, v) : id \in WorkIds}} :
           v \in Range(Versions)}

\* the same for the directories of Josquin_PDF_scraper.py
JosquinDisks ==
    UNION {UNION {[D -> Leftovers] :
                    D \in SUBSET ({section_path(id, v) : id \in WorkIds}
                                    \cup {merged_path(Slice(id, BaseLen), v) :
                                             id \in WorkIds})} :
           v \in Range(Versions)}

\* the lists main passes to merge_work: sorted, two ids or more of one base
SectionLists == {Sorted(S) : S \in {T \in SUBSET WorkIds : Cardinality(T) >= 2}}

InitCalls ==
    /\ disk \in Disks \cup JosquinDisks
    /\ cache = <<>>
    /\ report = <<>>
    /\ pc = "call"
    /\ old_works = EmptyDict
    /\ new_works = EmptyDict
    /\ new_list = <<>>
    /\ diff = NoDiff
    /\ i = 1
    /\ k = 1
    /\ work_groups = EmptyDict
    /\ missing_or_failed = <<>>
    /\ runs = 1
    /\ faults = 0
    /\ last = NoCall
    /\ hist = NoHist

\* the call returns or raises; nothing else runs
Called(op, arg, force, o) ==
    /\ disk' = o.disk
    /\ missing_or_failed' = o.ledger
    /\ last' = Call(op, arg, force, disk, missing_or_failed, o)
    /\ pc' = IF o.raised THEN "raised" ELSE "returned"
    /\ UNCHANGED <<cache, report, old_works, new_works, new_list, diff, i, k,
                   work_groups, runs, faults, hist>>

CallDownload ==
    /\ pc = "call"
    /\ \E work_id \in WorkIds, version \in Range(Versions), force \in BOOLEAN,
          resp \in Responses(<<"2021">>), fault \in 0..2 :
            Called("download_pdf", work_id, force,
                   download_pdf(disk, missing_or_failed, work_id, version, force,
                                resp, fault))

CallMerge ==
    /\ pc = "call"
    /\ \E sections \in SectionLists, version \in Range(Versions) :
       \E inputs \in {ValidFiles(disk, sections, version, 0, 0).files} :
       \E tool \in ToolRuns(disk, inputs), fault \in Faults(sections) :
            Called("merge_work", sections, FALSE,
                   merge_work(disk, missing_or_failed, sections,
                              Slice(sections[1], BaseLen), version, tool, fault))

Josquin_CallDownload ==
    /\ pc = "call"
    /\ \E section_id \in WorkIds, version \in Range(Versions),
          resp \in Responses(<<"2021">>), fault \in 0..2 :
            Called("download_pdf", section_id, FALSE,
                   Josquin_download_pdf(disk, missing_or_failed, section_id, version,
                                        resp, fault))

Josquin_CallMerge ==
    /\ pc = "call"
    /\ \E sections \in SectionLists, version \in Range(Versions) :
       \E paths \in {[n \in DOMAIN sections |-> section_path(sections[n], version)]} :
       \E inputs \in {Josquin_ValidFiles(disk, paths, 0, 0).files} :
       \E tool \in ToolRuns(disk, inputs), fault \in Faults(sections) :
            Called("merge_work", paths, FALSE,
                   Josquin_merge_work(disk, missing_or_failed, paths,
                                      Slice(sections[1], BaseLen), version, tool, fault))

\* one call of is_valid_pdf (the same function in both scripts) on a path of
\* either script, pdfinfo started or not; ret holds the path when the call
\* returned True, nothing when it returned False; requested tells that
\* pdfinfo ran
CallValid ==
    /\ pc = "call"
    /\ \E id \in WorkIds, version \in Range(Versions), launch \in BOOLEAN :
       \E path \in {pdf_path(id, version), section_path(id, version)} :
       \E v \in {is_valid_pdf(disk, path, launch)} :
            Called("is_valid_pdf", path, FALSE,
                   Outcome(disk, missing_or_failed, path,
                           IF v = "True" THEN <<path>> ELSE <<>>, v = "OSError",
                           launch /\ path \in DOMAIN disk
                                  /\ disk[path].size >= MIN_VALID_SIZE,
                           FALSE, FALSE, FALSE, <<>>))

NextCalls ==
    \/ CallValid
    \/ CallDownload
    \/ CallMerge
    \/ Josquin_CallDownload
    \/ Josquin_CallMerge

SpecCalls == InitCalls /\ [][NextCalls]_vars

-----------------------------------------------------------------------------
(* Properties of one call                                                   *)

\* the file the last call found at its output path
Found == last.pre # <<>>
FoundWellFormed ==
    /\ Found
    /\ last.pre[1].size >= MIN_VALID_SIZE
    /\ last.pre[1].wellformed

\* C1 (idempotent skip): a call of download_pdf without force that finds, at
\* its output path, a file of MIN_VALID_SIZE bytes or more which the structural
\* check accepts (the check ran: nothing was raised) issues no request, leaves
\* the disk and the failure ledger as they were, and returns the path.
C1_IdempotentSkip ==
    [][(/\ pc = "call"
        /\ last'.op = "download_pdf"
        /\ ~last'.force
        /\ last'.path \in DOMAIN disk
        /\ disk[last'.path].size >= MIN_VALID_SIZE
        /\ disk[last'.path].wellformed
        /\ ~last'.raised)
       => (/\ ~last'.requested
           /\ disk' = disk
           /\ missing_or_failed' = missing_or_failed
           /\ last'.ret = <<last'.path>>)]_vars

C1_Witness ==
    /\ pc = "returned"
    /\ last.op = "download_pdf"
    /\ ~last.force
    /\ FoundWellFormed
    /\ last.ret = <<last.path>>
    /\ last.path.dir = composer_folder("Jos0101a")

\* C2 (re-fetch condition): a call of download_pdf deletes the file it finds at
\* its output path and issues a request when force is set, or when that file
\* is missing, shorter than MIN_VALID_SIZE or not a well-formed PDF; in every
\* other case it issues no request.
C2_Refetch ==
    last.op = "download_pdf" =>
        IF last.force \/ ~FoundWellFormed
        THEN last.requested /\ (Found => last.removed)
        ELSE ~last.requested

\* C3 (no torn outputs): when download_pdf or merge_work has returned, the
\* file it wrote at its output path, if one is left there, is valid: of
\* MIN_VALID_SIZE bytes or more and a well-formed PDF.
C3_NoTornOutputs ==
    (pc = "returned" /\ last.wrote /\ last.path \in DOMAIN disk)
        => (/\ disk[last.path].size >= MIN_VALID_SIZE
            /\ disk[last.path].wellformed)

-----------------------------------------------------------------------------
(* Properties of the reconciliation                                         *)

Reconciled == pc \in {"sync", "merge"}

DateOf(works, id) == Get(works.at[id], "DATE_CHANGED", "")
UpdatedIds == {diff.updated[n][1] : n \in DOMAIN diff.updated}

\* C4 (reconciliation correctness): added are the ids of new not in old,
\* removed those of old not in new; an id of both is updated iff its two
\* DATE_CHANGED values differ, a missing one read as "", and unchanged
\* otherwise; added, updated and unchanged partition the ids of new, and
\* removed holds no id of new.
C4_Reconciliation ==
    Reconciled =>
        LET old_ids == DictKeys(old_works)
            new_ids == DictKeys(new_works)
            added == Range(diff.added)
            removed == Range(diff.removed)
            unchanged == Range(diff.unchanged)
        IN  /\ added = new_ids \ old_ids
            /\ removed = old_ids \ new_ids
            /\ UpdatedIds = {id \in old_ids \cap new_ids :
                                DateOf(old_works, id) # DateOf(new_works, id)}
            /\ unchanged = {id \in old_ids \cap new_ids :
                               DateOf(old_works, id) = DateOf(new_works, id)}
            /\ \A n \in DOMAIN diff.updated :
                    /\ diff.updated[n][2] = DateOf(old_works, diff.updated[n][1])
                    /\ diff.updated[n][3] = DateOf(new_works, diff.updated[n][1])
            /\ added \cup UpdatedIds \cup unchanged = new_ids
            /\ added \cap UpdatedIds = {}
            /\ added \cap unchanged = {}
            /\ UpdatedIds \cap unchanged = {}
            /\ removed \cap new_ids = {}
            /\ Len(diff.added) = Cardinality(added)
            /\ Len(diff.removed) = Cardinality(removed)
            /\ Len(diff.updated) = Cardinality(UpdatedIds)
            /\ Len(diff.unchanged) = Cardinality(unchanged)

\* an id added, an id removed, and an id whose date is missing on one side
\* and empty on the other
C4_Witness ==
    /\ Reconciled
    /\ diff.added # <<>>
    /\ diff.removed # <<>>
    /\ \E id \in Range(diff.unchanged) :
           /\ "DATE_CHANGED" \notin DOMAIN old_works.at[id]
           /\ "DATE_CHANGED" \in DOMAIN new_works.at[id]

\* C5 (change-triggered force): the force flag of every call of download_pdf
\* made by main is set iff the reconciler put the item in added or updated,
\* and clear iff it put it in unchanged.
C5_ChangeTriggeredForce ==
    (Reconciled /\ last.op = "download_pdf") =>
        /\ last.force <=> last.arg \in Range(diff.added) \cup UpdatedIds
        /\ ~last.force <=> last.arg \in Range(diff.unchanged)

\* the second call for an updated item, and an unchanged one before it
C5_Witness ==
    /\ Reconciled
    /\ last.op = "download_pdf"
    /\ last.path = pdf_path(last.arg, "edit")
    /\ last.force
    /\ last.arg \in UpdatedIds
    /\ diff.unchanged # <<>>

-----------------------------------------------------------------------------
(* Properties of runs                                                       *)

\* the calls main makes in a run that reaches its end: two for each item and
\* two for each group of two ids or more
ExpectedCalls ==
    2 * Len(new_works.keys)
        + 2 * Cardinality({n \in DOMAIN work_groups.keys :
                             Len(work_groups.at[work_groups.keys[n]]) >= 2})

\* C6 (snapshot persisted last): the cache changes only in the step of main
\* that follows the return of every call of download_pdf and merge_work of the
\* run, and it becomes the retrieved catalog; a run that is interrupted, or
\* left by an exception, before that step leaves the cache as it was when the
\* run started.
C6_SnapshotPersistedLast ==
    [][/\ cache' # cache
          => /\ pc = "update_cache"
             /\ hist.calls = ExpectedCalls
             /\ cache' = <<new_list>>
       /\ (pc \in {"loaded", "sync", "merge", "update_cache"}
              /\ pc' \in {"interrupted", "aborted"})
          => cache' = hist.cache0]_vars

\* a second run killed after it fetched something: the first run's cache stays
C6_Witness ==
    /\ pc = "interrupted"
    /\ runs = 2
    /\ hist.prev.fetched # {}
    /\ cache # <<>>
    /\ cache = hist.cache0
    /\ cache # <<hist.prev.list>>

\* C7 (resume idempotence): a run that follows an interrupted one and retrieves
\* the same catalog issues no request for an artifact the interrupted run had
\* fetched and validated.
C7_ResumeIdempotence ==
    (/\ pc \in Running \cup {"done"}
     /\ hist.prev.outcome = "interrupted"
     /\ new_list = hist.prev.list)
        => hist.requests \cap hist.prev.fetched = {}

\* the lines of the failure report on disk (none when there is no file)
ReportLines == IF report = <<>> THEN <<>> ELSE report[1]

\* C8 (no stale failure report): at the end of a completed run, every path in
\* the failure report on disk failed in that run.
C8_NoStaleReport ==
    pc = "done" => Range(ReportLines) \subseteq hist.failures

\* C9 (ledger accuracy): at the end of a completed run, the failure report on
\* disk has as many lines as there are distinct paths whose fetch or merge
\* failed in that run.
C9_LedgerAccuracy ==
    pc = "done" => Len(ReportLines) = Cardinality(hist.failures)

\* C10 (failures are non-fatal): once the catalog is retrieved, no exception
\* leaves main: a run stops early only when the catalog could not be had.
C10_FailuresNonFatal ==
    pc = "aborted" => ~hist.obtained

\* C11 (snapshot-acquisition fallback): a run that could not retrieve the
\* catalog stops for that reason only when the store held no cache at its
\* start; with a cache it goes on with the cached list.
C11_SnapshotFallback ==
    (pc = "aborted" /\ ~hist.obtained) => hist.cache0 = <<>>

-----------------------------------------------------------------------------
(* Properties of one call of merge_work                                     *)

\* C12 (merge skip on existing valid composite): a call of merge_work that
\* finds at its output path a file of MIN_VALID_SIZE bytes or more that is a
\* well-formed PDF does not run the merge tool, leaves the disk as it was and
\* appends nothing to the failure ledger.
C12_MergeSkip ==
    [][(/\ pc = "call"
        /\ last'.op = "merge_work"
        /\ last'.path \in DOMAIN disk
        /\ disk[last'.path].size >= MIN_VALID_SIZE
        /\ disk[last'.path].wellformed)
       => (/\ ~last'.requested
           /\ disk' = disk
           /\ missing_or_failed' = missing_or_failed)]_vars

\* a valid file: of MIN_VALID_SIZE bytes or more and a well-formed PDF
ValidAt(d, path) ==
    /\ path \in DOMAIN d
    /\ d[path].size >= MIN_VALID_SIZE
    /\ d[path].wellformed

\* the paths of the members a call of merge_work was given: JRP_scraper gives
\* ids, and the version is the one of the output path; Josquin_PDF_scraper
\* gives the paths
MemberPaths(call) ==
    IF call.path.dir = <<MERGED_DIR>> THEN call.arg
    ELSE [n \in DOMAIN call.arg |-> pdf_path(call.arg[n], call.path.name[3])]

\* C13 (partial-member merge): when merge_work runs the merge tool, it gives it
\* the paths of the members whose files are valid, in the order of the
\* members, and they are two or more; when fewer than two members have a
\* valid file it runs no tool and leaves the disk and the failure ledger as
\* they were; in no case does it append a member's path to the ledger.
C13_PartialMemberMerge ==
    [][(pc = "call" /\ last'.op = "merge_work")
       => LET valid == SelectSeq(MemberPaths(last'), LAMBDA p : ValidAt(disk, p))
          IN  /\ last'.requested => last'.inputs = valid /\ Len(valid) >= 2
              /\ Len(valid) < 2
                    => /\ ~last'.requested
                       /\ disk' = disk
                       /\ missing_or_failed' = missing_or_failed
              /\ missing_or_failed' \in {missing_or_failed,
                                         Append(missing_or_failed, last'.path)}]_vars

\* three members, one of them not valid, and the tool run on the other two
C13_Witness ==
    /\ pc = "returned"
    /\ last.op = "merge_work"
    /\ last.path.dir # <<MERGED_DIR>>
    /\ Len(last.arg) = 3
    /\ Len(last.inputs) = 2
    /\ last.requested
    /\ last.ret = <<last.path>>

-----------------------------------------------------------------------------
(* Properties of the merges of a run                                        *)

\* C14 (merge determinism): every call of merge_work made by main is given the
\* ids of the catalog that share the group's 7-character key, in ascending
\* order; the paths it validates and hands to the merge tool follow that
\* order; its output is merged_pdf_path of the key and of the version of the
\* call, in whatever order the catalog lists the ids.
C14_MergeDeterminism ==
    [][(pc = "merge" /\ last'.op = "merge_work" /\ (k' # k \/ pc' = "aborted"))
       => LET sections == last'.arg
              base == Slice(sections[1], BaseLen)
              members == [n \in DOMAIN sections |-> pdf_path(sections[n], Versions[k])]
          IN  /\ Len(sections) >= 2
              /\ \A n \in 1..Len(sections) - 1 : StrLess(sections[n], sections[n + 1])
              /\ Range(sections) = {new_list[n].WORK_ID : n \in DOMAIN new_list}
                                      \cap {id \in WorkIds : Slice(id, BaseLen) = base}
              /\ last'.path = merged_pdf_path(base, Versions[k])
              /\ last'.inputs
                    = SelectSeq(members, LAMBDA p : p \in Range(last'.inputs))]_vars

\* a catalog that lists the two sections in descending order, merged in
\* ascending order
C14_Witness ==
    /\ pc = "merge"
    /\ Len(new_list) = 2
    /\ new_list[1].WORK_ID = "Jos0101b"
    /\ new_list[2].WORK_ID = "Jos0101a"
    /\ last.op = "merge_work"
    /\ last.requested
    /\ last.ret = <<last.path>>
    /\ last.inputs = <<pdf_path("Jos0101a", "edit"), pdf_path("Jos0101b", "edit")>>

-----------------------------------------------------------------------------
(* Properties of the validator                                              *)

\* C15 (validator totality): a call of is_valid_pdf never raises; it returns
\* True iff the file exists, has MIN_VALID_SIZE bytes or more, and pdfinfo ran
\* and accepted it; so it returns False for a missing path, for a shorter
\* file, for a file pdfinfo rejects and when pdfinfo cannot be started; it
\* changes nothing.
C15_ValidatorTotality ==
    last.op = "is_valid_pdf"
        => /\ ~last.raised
           /\ last.ret # <<>> <=> (FoundWellFormed /\ last.requested)
           /\ ~last.removed /\ ~last.wrote /\ last.appended = 0
           /\ (IF last.pre = <<>> THEN last.path \notin DOMAIN disk
               ELSE last.path \in DOMAIN disk /\ disk[last.path] = last.pre[1])

-----------------------------------------------------------------------------
(* Properties of a failed merge *)

\* C16 (merge-tool failure leaves nothing behind): when pdfunite exits
\* non-zero in a call of merge_work, with or without a partial output, the
\* call returns having appended the composite path to the ledger once, and no
\* file exists at the composite path.
C16_MergeFailureLeavesNothing ==
    (last.op = "merge_work" /\ last.exit = "nonzero")
        => /\ pc = "returned"
           /\ last.appended = 1
           /\ missing_or_failed[Len(missing_or_failed)] = last.path
           /\ last.path \notin DOMAIN disk
-----------------------------------------------------------------------------
(* Properties of the report of a completed run *)

\* the ids of the run's catalog, and those of them that make the group of a
\* base
RunIds == Range(new_works.keys)
GroupOf(base) == {id \in RunIds : Slice(id, BaseLen) = base}
ValidMembers(base, version) ==
    {id \in GroupOf(base) : ValidAt(disk, pdf_path(id, version))}

\* C17 (ledger completeness): when a run has completed, the report on disk
\* lists the artifact path of every item and variant of the run's catalog
\* that has no valid artifact, and the composite path of every group and
\* variant that has two valid members or more and no valid composite.
C17_LedgerCompleteness ==
    pc = "done"
        => \A version \in Range(Versions) :
            /\ \A id \in RunIds :
                   ~ValidAt(disk, pdf_path(id, version))
                       => pdf_path(id, version) \in Range(ReportLines)
            /\ \A id \in RunIds :
                   LET base == Slice(id, BaseLen)
                   IN  (/\ Cardinality(ValidMembers(base, version)) >= 2
                        /\ ~ValidAt(disk, merged_pdf_path(base, version)))
                           => merged_pdf_path(base, version) \in Range(ReportLines)

\* a completed run whose only failure was the merge of a group of two valid
\* members: the composite is absent and listed
C17_Witness ==
    /\ pc = "done"
    /\ \E id \in RunIds, version \in Range(Versions) :
         LET base == Slice(id, BaseLen)
         IN  /\ Cardinality(ValidMembers(base, version)) >= 2
             /\ ~ValidAt(disk, merged_pdf_path(base, version))
             /\ ReportLines = <<merged_pdf_path(base, version)>>
-----------------------------------------------------------------------------
(* Properties of the paths of a run *)

\* C18 (path disjointness): in every run, the artifact path of an item of the
\* catalog differs from the composite path of every group of the catalog that
\* has two members or more, and no call of merge_work has its output path
\* among the members it was given.
C18_PathDisjointness ==
    /\ pc \in Running
         => \A id \in RunIds, member \in RunIds, version \in Range(Versions) :
                LET base == Slice(member, BaseLen)
                IN  Cardinality(GroupOf(base)) >= 2
                        => pdf_path(id, version) # merged_pdf_path(base, version)
    /\ (pc \in Running /\ last.op = "merge_work")
         => last.path \notin Range(MemberPaths(last))
-----------------------------------------------------------------------------
(* Properties of the composites across runs *)

\* the artifacts of the valid members of a group, in the order of a merge
MemberFiles(base, version) ==
    LET ids == Sorted(ValidMembers(base, version))
    IN  [n \in DOMAIN ids |-> pdf_path(ids[n], version)]

\* C19 (composite freshness): when a run has completed, every valid composite
\* on disk of a group of the run's catalog that has two members or more is
\* the merge of the members' artifacts as they are on disk then; a member
\* re-fetched in the run is in the composite as re-fetched.
C19_CompositeFreshness ==
    pc = "done"
        => \A id \in RunIds, version \in Range(Versions) :
            LET base == Slice(id, BaseLen)
                output_path == merged_pdf_path(base, version)
            IN  (Cardinality(GroupOf(base)) >= 2 /\ ValidAt(disk, output_path))
                    => disk[output_path].rev = ConcatRev(disk, MemberFiles(base, version))
-----------------------------------------------------------------------------
(* Properties of the items across runs *)

\* C20 (item freshness across runs): with a source whose change dates only
\* move forward and a store that starts empty, at every moment (a kill leaves
\* the store as it is), when the cache records date t for an item and a valid
\* file is at the item's artifact path for a variant, that file is the body
\* of a fetch made in a run whose catalog dated the item t or later.
C20_ItemFreshness ==
    cache # <<>>
        => \A n \in DOMAIN cache[1], version \in Range(Versions) :
            LET path == pdf_path(cache[1][n].WORK_ID, version)
                t == cache[1][n].DATE_CHANGED
            IN  ValidAt(disk, path)
                    => /\ Len(disk[path].rev) = 1
                       /\ ~Earlier(disk[path].rev[1], t)
====
